---- MODULE Spec2Model ----
(***************************************************************************)
(* A model of smolrtsp's request parser, SmolRTSP_RequestParser_parse      *)
(* (src/request_parser.c).  The parser is a state object driven by a       *)
(* caller that receives the bytes of one request in fragments and hands    *)
(* the unconsumed suffix of what it has received to every parse call.      *)
(*                                                                         *)
(* The primitive deserializers (SmolRTSP_Method_deserialize and so on)     *)
(* and the enumeration SmolRTSP_ParseRequestResult are declared in headers *)
(* that are not part of the sources at hand; they are modelled from the    *)
(* specification's description of them.                                    *)
(***************************************************************************)
EXTENDS Integers, Sequences, FiniteSets, TLC

(***************************************************************************)
(* Bounds of the model.                                                    *)
(***************************************************************************)
\* The number of parse calls the caller makes on one parser.
MaxCalls == 5

(***************************************************************************)
(* Bytes.  A byte is a string of one character.                            *)
(***************************************************************************)
SP == " "
CR == "\r"
LF == "\n"

AlphaNum ==
    {"A", "B", "C", "D", "E", "F", "G", "H", "I", "J", "K", "L", "M",
     "N", "O", "P", "Q", "R", "S", "T", "U", "V", "W", "X", "Y", "Z",
     "a", "b", "c", "d", "e", "f", "g", "h", "i", "j", "k", "l", "m",
     "n", "o", "p", "q", "r", "s", "t", "u", "v", "w", "x", "y", "z",
     "0", "1", "2", "3", "4", "5", "6", "7", "8", "9"}

\* The index of the first byte of w that is not in S; 0 when there is none.
FirstNotIn(w, S) ==
    IF \E i \in 1..Len(w) : w[i] \notin S
    THEN CHOOSE i \in 1..Len(w) :
            /\ w[i] \notin S
            /\ \A j \in 1..(i - 1) : w[j] \in S
    ELSE 0

\* The index of the first byte of w that is in S; 0 when there is none.
FirstIn(w, S) ==
    IF \E i \in 1..Len(w) : w[i] \in S
    THEN CHOOSE i \in 1..Len(w) :
            /\ w[i] \in S
            /\ \A j \in 1..(i - 1) : w[j] \notin S
    ELSE 0

\* Does w begin with p?
StartsWith(w, p) == Len(w) >= Len(p) /\ SubSeq(w, 1, Len(p)) = p

\* w without its first n bytes.
Drop(w, n) == SubSeq(w, n + 1, Len(w))

(***************************************************************************)
(* SmolRTSP_DeserializeResult, and what one deserializer call yields: the  *)
(* result, the bytes read and the value left in the destination.           *)
(***************************************************************************)
DeserializeResult == {"Ok", "Err", "NeedMore"}

Outcome(res, n, v) == [res |-> res, bytes_read |-> n, value |-> v, crash |-> FALSE]

(***************************************************************************)
(* SmolRTSP_Method_deserialize: a non-empty run of identifier bytes, ended *)
(* by a space that is consumed with it.  A window that ends inside the     *)
(* token needs more input; any other byte in the token is a type mismatch. *)
(***************************************************************************)
Method_deserialize(self, w) ==
    LET stop == FirstNotIn(w, AlphaNum)
    IN  IF stop = 0 THEN Outcome("NeedMore", 0, self)
        ELSE IF w[stop] = SP /\ stop > 1
             THEN Outcome("Ok", stop, SubSeq(w, 1, stop - 1))
             ELSE Outcome("Err", 0, self)

(***************************************************************************)
(* SmolRTSP_RequestURI_deserialize: a non-empty run of bytes other than    *)
(* white space, ended by a space that is consumed with it.                 *)
(***************************************************************************)
RequestURI_deserialize(self, w) ==
    LET stop == FirstIn(w, {SP, CR, LF})
    IN  IF stop = 0 THEN Outcome("NeedMore", 0, self)
        ELSE IF w[stop] = SP /\ stop > 1
             THEN Outcome("Ok", stop, SubSeq(w, 1, stop - 1))
             ELSE Outcome("Err", 0, self)

(***************************************************************************)
(* SmolRTSP_RTSPVersion_deserialize: the literal RTSP/1.0 and the CRLF     *)
(* that ends the request line.                                             *)
(***************************************************************************)
VersionLine == <<"R", "T", "S", "P", "/", "1", ".", "0", CR, LF>>

RTSPVersion_deserialize(self, w) ==
    IF StartsWith(w, VersionLine)
    THEN Outcome("Ok", Len(VersionLine), "RTSP/1.0")
    ELSE IF StartsWith(VersionLine, w)
         THEN Outcome("NeedMore", 0, self)
         ELSE Outcome("Err", 0, self)

(***************************************************************************)
(* SmolRTSP_Header_deserialize: one header line, name ": " value CRLF.     *)
(* The value left in the destination is the pair of the name and the       *)
(* value.                                                                  *)
(***************************************************************************)
HeaderNameChars == AlphaNum \cup {"-"}

Header_deserialize(self, w) ==
    LET colon == FirstNotIn(w, HeaderNameChars)
        rest  == Drop(w, colon)
        val   == Drop(rest, 1)
        eol   == FirstIn(val, {CR, LF})
    IN  IF colon = 0 THEN Outcome("NeedMore", 0, self)
        ELSE IF w[colon] # ":" \/ colon = 1 THEN Outcome("Err", 0, self)
        ELSE IF rest = <<>> THEN Outcome("NeedMore", 0, self)
        ELSE IF rest[1] # SP THEN Outcome("Err", 0, self)
        ELSE IF eol = 0 THEN Outcome("NeedMore", 0, self)
        ELSE IF val[eol] = LF THEN Outcome("Err", 0, self)
        ELSE IF eol = Len(val) THEN Outcome("NeedMore", 0, self)
        ELSE IF val[eol + 1] # LF THEN Outcome("Err", 0, self)
        ELSE Outcome("Ok", colon + 1 + eol + 1,
                     [key |-> SubSeq(w, 1, colon - 1),
                      value |-> SubSeq(val, 1, eol - 1)])

(***************************************************************************)
(* SmolRTSP_HeaderMap_deserialize: header lines up to the blank line that  *)
(* ends the header block.  Every complete line is inserted in the map and  *)
(* its bytes are read; a line that does not fit in the map is an overflow  *)
(* error; a window that ends before the blank line needs more input.       *)
(***************************************************************************)
HeaderMapCapacity == 2

RECURSIVE HeaderLines(_, _, _)
HeaderLines(map, w, n) ==
    IF StartsWith(w, <<CR, LF>>) THEN Outcome("Ok", n + 2, map)
    ELSE IF StartsWith(<<CR, LF>>, w) THEN Outcome("NeedMore", n, map)
    ELSE LET h == Header_deserialize(<<>>, w)
         IN  IF h.res = "NeedMore" THEN Outcome("NeedMore", n, map)
             ELSE IF h.res = "Err" THEN Outcome("Err", n, map)
             ELSE IF Len(map) >= HeaderMapCapacity THEN Outcome("Err", n, map)
             ELSE HeaderLines(Append(map, h.value), Drop(w, h.bytes_read),
                              n + h.bytes_read)

HeaderMap_deserialize(self, w) == HeaderLines(self, w, 0)

(***************************************************************************)
(* The request the caller supplies: every field empty.                     *)
(***************************************************************************)
EmptyRequest == [method |-> <<>>, uri |-> <<>>, version |-> "", header_map |-> <<>>]

(***************************************************************************)
(* SmolRTSP_ParseRequestResult.  The enumerators, in the order of their    *)
(* declaration: the first one has the value 0.                             *)
(***************************************************************************)
ParseRequestResult ==
    <<"NothingParsed", "MethodParsed", "RequestURIParsed", "RTSPVersionParsed",
      "HeaderMapParsed", "Ok", "Err">>

Finished == {"Ok", "Err"}

NonTerminal == {"NothingParsed", "MethodParsed", "RequestURIParsed",
                "RTSPVersionParsed", "HeaderMapParsed"}

(***************************************************************************)
(* The transition table of SmolRTSP_RequestParser_parse.  ASSOC(state,     *)
(* type, entity) sets the entry of `state` to the deserializer of `type`,  *)
(* the entity, and the next state type##Parsed.  The table has no ASSOC    *)
(* for RTSPVersionParsed: that entry, between two designated ones, is      *)
(* zero-initialised, so its deserializer and entity are null pointers and  *)
(* its next state is the enumerator of value 0.                            *)
(***************************************************************************)
NULL == "NULL"

ASSOC(type, entity) ==
    [deserializer |-> type, entity |-> entity,
     next_state_if_ok |-> type \o "Parsed"]

ZeroTransition ==
    [deserializer |-> NULL, entity |-> NULL,
     next_state_if_ok |-> ParseRequestResult[1]]

transition_table ==
    [st \in NonTerminal |->
        CASE st = "NothingParsed"    -> ASSOC("Method", "method")
          [] st = "MethodParsed"     -> ASSOC("RequestURI", "uri")
          [] st = "RequestURIParsed" -> ASSOC("RTSPVersion", "version")
          [] st = "HeaderMapParsed"  -> ASSOC("HeaderMap", "header_map")
          [] OTHER                   -> ZeroTransition]

\* The entry read for a state: transition_table[parser->state].
TransitionAt(st) ==
    IF st \in DOMAIN transition_table THEN transition_table[st] ELSE ZeroTransition

\* The local `transition` outside a call.
NoTransition == [deserializer |-> "", entity |-> "", next_state_if_ok |-> ""]

(***************************************************************************)
(* The requests that arrive, as byte sequences.                            *)
(***************************************************************************)
\* PLAY u RTSP/1.0 CRLF CSeq: 1 CRLF CRLF
ReqPlay ==
    <<"P", "L", "A", "Y", SP, "u", SP>> \o VersionLine \o
    <<"C", "S", "e", "q", ":", SP, "1", CR, LF, CR, LF>>

\* SETUP r:/a RTSP/1.0 CRLF A: 0-1 CRLF B: 2 CRLF CRLF
ReqSetup ==
    <<"S", "E", "T", "U", "P", SP, "r", ":", "/", "a", SP>> \o VersionLine \o
    <<"A", ":", SP, "0", "-", "1", CR, LF, "B", ":", SP, "2", CR, LF, CR, LF>>

\* SET_UP u RTSP/1.0 CRLF CRLF: the method holds a byte that is no identifier byte.
ReqBadMethod ==
    <<"S", "E", "T", "_", "U", "P", SP, "u", SP>> \o VersionLine \o <<CR, LF>>

\* GO u HTTP/1.0 CRLF CRLF: another protocol version.
ReqBadVersion ==
    <<"G", "O", SP, "u", SP, "H", "T", "T", "P", "/", "1", ".", "0", CR, LF, CR, LF>>

\* GO u RTSP/1.0 CRLF and three header lines: more than the header map holds.
ReqOverflow ==
    <<"G", "O", SP, "u", SP>> \o VersionLine \o
    <<"A", ":", SP, "1", CR, LF, "B", ":", SP, "2", CR, LF,
      "C", ":", SP, "3", CR, LF, CR, LF>>

Requests == {ReqPlay, ReqSetup, ReqBadMethod, ReqBadVersion, ReqOverflow}

(***************************************************************************)
(* The state: the caller's side (the bytes of the request, how many of     *)
(* them have arrived, how many the parser has been shown), the parser      *)
(* object (state, cursor), the caller's Request, and the position and the  *)
(* locals of the parse call in progress.                                   *)
(***************************************************************************)
VARIABLES
    input,      \* the bytes of the request, as they will arrive
    supplied,   \* how many of them the caller has received
    seen,       \* how many of them had arrived at the latest parse call
    state,      \* parser->state
    cursor,     \* parser->cursor: the position in input it points to
    request,    \* *request
    pc,         \* "idle": no call in progress; "loop": at the head of the
                \* while loop; "crashed": the process has been terminated
    transition, \* the local `transition`
    size,       \* the parameter `size`
    ret,        \* the value the latest call returned
    lastRes,    \* `res` of the latest deserializer call of the latest call
    ncalls,     \* the number of parse calls made
    done        \* the deserializers that reported Ok, in order

parserVars ==
    <<input, supplied, seen, state, cursor, request, pc, transition, size,
      ret, lastRes, ncalls, done>>

(***************************************************************************)
(* The state of the media functions of the example server (start_audio,    *)
(* start_video, send_nalu in examples/server.c).                           *)
(***************************************************************************)
VARIABLES
    mpc,        \* the position in start_audio or start_video: "off", "audio",
                \* "video_begin", "video_loop", "done", "aborted", "crashed"
    alen,       \* ___media_audio_g711a_len
    ai,         \* the loop variable i of start_audio
    units,      \* the NAL units that ___media_video_h264 was made of
    vstream,    \* the bytes of ___media_video_h264
    vpos,       \* video.ptr, as a position in vstream (counted from 1)
    tester,     \* start_code_tester: the width of the start code it tests
    nalu_start, \* the local nalu_start of start_video, a position in vstream
    timestamp,  \* the local timestamp of start_video
    sent,       \* the packets handed to send_packet, in order
    calls,      \* the arguments of the send_nalu calls, in order
    failures,   \* how many send_packet calls returned -1
    reported    \* how many times perror was called

mediaVars ==
    <<mpc, alen, ai, units, vstream, vpos, tester, nalu_start, timestamp,
      sent, calls, failures, reported>>

\* The media functions are not running.
MediaOff ==
    /\ mpc = "off"
    /\ alen = 0
    /\ ai = 0
    /\ units = <<>>
    /\ vstream = <<>>
    /\ vpos = 1
    /\ tester = 0
    /\ nalu_start = 0
    /\ timestamp = 0
    /\ sent = <<>>
    /\ calls = <<>>
    /\ failures = 0
    /\ reported = 0

(***************************************************************************)
(* A SmolRTSP_ParseResult under construction and inspection (error.c).     *)
(***************************************************************************)
VARIABLES
    pr,         \* a SmolRTSP_ParseResult, or NoResult before one is built
    made,       \* the constructor that built pr, and its argument
    answer      \* what is_partial and is_complete said of pr, or NoAnswer

resultVars == <<pr, made, answer>>

NoResult == [tag |-> "none"]

NoAnswer == [asked |-> FALSE, is_partial |-> FALSE, is_complete |-> FALSE]

\* No SmolRTSP_ParseResult has been built.
ResultOff ==
    /\ pr = NoResult
    /\ made = [by |-> "none", offset |-> 0]
    /\ answer = NoAnswer

(***************************************************************************)
(* The state of one Client of the example server (examples/server.c).      *)
(***************************************************************************)
VARIABLES
    streams,    \* self->streams: session_id and transport of each stream;
                \* a transport is the number of a transport object, 0 is NULL
    objs,       \* the SmolRTSP_RtpTransport objects created, in order
    spc,        \* "off", "idle" (between two requests) or "crashed"
    sreq,       \* the latest request handled
    responses,  \* the responses sent for the latest request, in order
    started,    \* the streams the latest request started, in order
    nreq        \* the number of requests handled

serverVars == <<streams, objs, spc, sreq, responses, started, nreq>>

\* Client, as calloc leaves it: every session_id 0, every transport NULL.
FreshStreams == [i \in {0, 1} |-> [session_id |-> 0, transport |-> 0]]

NoRequest == [method |-> "none"]

\* No client is connected.
ServerOff ==
    /\ streams = FreshStreams
    /\ objs = <<>>
    /\ spc = "off"
    /\ sreq = NoRequest
    /\ responses = <<>>
    /\ started = <<>>
    /\ nreq = 0

\* What the actions of each part leave alone.
otherVars == <<mediaVars, resultVars, serverVars>>

nonMediaVars == <<parserVars, resultVars, serverVars>>

nonResultVars == <<parserVars, mediaVars, serverVars>>

nonServerVars == <<parserVars, mediaVars, resultVars>>

vars == <<parserVars, mediaVars, resultVars, serverVars>>

\* parser->cursor = NULL: positions in input count from 1.
NullCursor == 0

\* SmolRTSP_RequestParser_new, and a caller that has received nothing yet.
ParserInit ==
    /\ input \in Requests
    /\ supplied = 0
    /\ seen = 0
    /\ state = "NothingParsed"
    /\ cursor = NullCursor
    /\ request = EmptyRequest
    /\ pc = "idle"
    /\ transition = NoTransition
    /\ size = 0
    /\ ret = "none"
    /\ lastRes = "none"
    /\ ncalls = 0
    /\ done = <<>>

\* No parser is in use: a fresh one that is never called.
ParserOff == ParserInit /\ input = ReqPlay

Init == ParserInit /\ MediaOff /\ ResultOff /\ ServerOff

\* More bytes of the request arrive at the caller.
Feed ==
    /\ pc = "idle"
    /\ supplied < Len(input)
    /\ \E n \in (supplied + 1)..Len(input) : supplied' = n
    /\ UNCHANGED <<input, seen, state, cursor, request, pc, transition, size,
                   ret, lastRes, ncalls, done>>
    /\ UNCHANGED otherVars

\* The window the caller hands to a parse call: what it has received and the
\* parser has not consumed.
DataOfCaller == IF cursor = NullCursor THEN 1 ELSE cursor

\* A variant of IsFinished that forgets the Err state.
IsFinished_OnlyOk(st) == st = "Ok"

\* if (parser->state == Ok || parser->state == Err)
IsFinished(st) == st = "Ok" \/ st = "Err"

\* A variant of CursorOnEntry that sets the cursor before the test of the state.
CursorOnEntry_BeforeTest(st, cur, data) == data

\* parser->cursor after the entry of parse: set to data unless parse has
\* returned before.
CursorOnEntry(st, cur, data) == IF IsFinished(st) THEN cur ELSE data

\* A parse call on a finished parser: it returns parser->state.  The caller
\* passes the unconsumed bytes, or an empty window behind what it received.
ParseFinished ==
    /\ pc = "idle"
    /\ ncalls < MaxCalls
    /\ IsFinished(state)
    /\ ncalls' = ncalls + 1
    /\ seen' = supplied
    /\ \E data \in {DataOfCaller, supplied + 1} :
          cursor' = CursorOnEntry(state, cursor, data)
    /\ ret' = state
    /\ lastRes' = "none"
    /\ UNCHANGED <<input, supplied, state, request, pc, transition, size, done>>
    /\ UNCHANGED otherVars

\* A parse call on an unfinished parser, up to the head of the loop.
ParseBegin ==
    /\ pc = "idle"
    /\ ncalls < MaxCalls
    /\ ~IsFinished(state)
    /\ ncalls' = ncalls + 1
    /\ seen' = supplied
    /\ cursor' = CursorOnEntry(state, cursor, DataOfCaller)
    /\ size' = supplied - (DataOfCaller - 1)
    /\ transition' = TransitionAt(state)
    /\ lastRes' = "none"
    /\ pc' = "loop"
    /\ UNCHANGED <<input, supplied, state, request, ret, done>>
    /\ UNCHANGED otherVars

(***************************************************************************)
(* One deserializer call, transition.deserializer(transition.entity, size, *)
(* parser->cursor, &bytes_read).  A call through the null deserializer of  *)
(* the zero-initialised table entry is undefined: the process is           *)
(* terminated, or the call comes back with some result and some count of   *)
(* bytes read.                                                             *)
(***************************************************************************)
Crash == [res |-> "Crash", bytes_read |-> 0, value |-> NULL, crash |-> TRUE]

Invoke(tr, req, w) ==
    CASE tr.deserializer = "Method" ->
            {Method_deserialize(req[tr.entity], w)}
      [] tr.deserializer = "RequestURI" ->
            {RequestURI_deserialize(req[tr.entity], w)}
      [] tr.deserializer = "RTSPVersion" ->
            {RTSPVersion_deserialize(req[tr.entity], w)}
      [] tr.deserializer = "HeaderMap" ->
            {HeaderMap_deserialize(req[tr.entity], w)}
      [] OTHER ->
            {Crash} \cup
            {Outcome(r, n, NULL) : r \in DeserializeResult, n \in 0..Len(w)}

\* The destination of a deserializer call after the call.
WriteEntity(req, entity, v) ==
    IF entity = NULL THEN req ELSE [req EXCEPT ![entity] = v]

(***************************************************************************)
(* The switch on the result of a deserializer call: the new parser state,  *)
(* and whether parse returns it.                                           *)
(***************************************************************************)
\* A variant of OnOk without the test of the header-map stage.
OnOk_AnyStage(st, tr) == [state |-> "Ok", return |-> TRUE]

\* case SmolRTSP_DeserializeResultOk
OnOk(st, tr) ==
    IF st = "HeaderMapParsed"
    THEN [state |-> "Ok", return |-> TRUE]
    ELSE [state |-> tr.next_state_if_ok, return |-> FALSE]

\* A variant of OnErr without the return.
OnErr_NoReturn(st) == [state |-> "Err", return |-> FALSE]

\* case SmolRTSP_DeserializeResultErr
OnErr(st) == [state |-> "Err", return |-> TRUE]

\* A variant of OnNeedMore that falls into the Err case.
OnNeedMore_FallsIntoErr(st) == [state |-> "Err", return |-> TRUE]

\* case SmolRTSP_DeserializeResultNeedMore
OnNeedMore(st) == [state |-> st, return |-> TRUE]

Switch(res, st, tr) ==
    CASE res = "Ok"       -> OnOk(st, tr)
      [] res = "Err"      -> OnErr(st)
      [] res = "NeedMore" -> OnNeedMore(st)

\* The bytes of the window [parser->cursor, parser->cursor + size).
Window(in, cur, sz) == SubSeq(in, cur, cur + sz - 1)

\* One iteration of the while loop of parse.
ParseLoop ==
    /\ pc = "loop"
    /\ \E o \in Invoke(transition, request, Window(input, cursor, size)) :
          IF o.crash
          THEN /\ pc' = "crashed"
               /\ lastRes' = o.res
               /\ UNCHANGED <<state, cursor, request, transition, size, ret, done>>
          ELSE LET sw == Switch(o.res, state, transition)
               IN  /\ cursor' = cursor + o.bytes_read
                   /\ size' = IF sw.return THEN 0 ELSE size - o.bytes_read
                   /\ request' = WriteEntity(request, transition.entity, o.value)
                   /\ lastRes' = o.res
                   /\ done' = IF o.res = "Ok" /\ transition.deserializer # NULL
                              THEN Append(done, transition.deserializer)
                              ELSE done
                   /\ state' = sw.state
                   /\ pc' = IF sw.return THEN "idle" ELSE "loop"
                   /\ ret' = IF sw.return THEN sw.state ELSE ret
                   /\ transition' = IF sw.return THEN NoTransition ELSE transition
    /\ UNCHANGED <<input, supplied, seen, ncalls>>
    /\ UNCHANGED otherVars

Next == Feed \/ ParseFinished \/ ParseBegin \/ ParseLoop

Spec == Init /\ [][Next]_vars

\* The caller goes on feeding and calling, and a call in progress runs on.
LiveSpec ==
    Spec /\ WF_vars(Feed) /\ WF_vars(ParseFinished) /\ WF_vars(ParseBegin)
         /\ WF_vars(ParseLoop)

(***************************************************************************)
(* The media functions of the example server.  start_audio cuts the audio  *)
(* buffer into RTP packets; start_video scans the H.264 byte stream for    *)
(* start codes and hands every NAL unit to send_nalu.  A send_packet call  *)
(* returns 0 or -1.                                                        *)
(***************************************************************************)
\* The bounds of the media model: the length of the audio buffer, the number
\* of NAL units of the video, the length of a unit and the number of
\* send_packet calls that fail.
MaxAudioLen == 500
MaxUnits == 3
MaxUnitLen == 2
MaxFailures == 1

AUDIO_SAMPLES_PER_PACKET == 160
VIDEO_SAMPLE_RATE == 90000
VIDEO_FPS == 25

\* uint32_t arithmetic: reduction modulo 2^32.  The timestamps start at 0
\* and the numbers of the model stay far below 2^31, where the reduction
\* leaves a number as it is.
U32(n) == n

\* What send_packet may return: 0, or -1 on a failure.
SendResults(nfail) == IF nfail < MaxFailures THEN {0, 0 - 1} ELSE {0}

\* A variant of Perror that reports nothing.
Perror_Silent(res, n) == n

\* if (send_packet(...) == -1) perror(...): the count of perror calls.
Perror(res, n) == IF res = 0 - 1 THEN n + 1 ELSE n

\* i * AUDIO_SAMPLES_PER_PACKET < ___media_audio_g711a_len
AudioContinues(len, i) == i * AUDIO_SAMPLES_PER_PACKET < len

\* A variant of AudioTimestamp that counts packets, not samples.
AudioTimestamp_PacketCount(i) == U32(i)

\* SmolRTSP_RtpTimestamp_Raw(i * AUDIO_SAMPLES_PER_PACKET)
AudioTimestamp(i) == U32(i * AUDIO_SAMPLES_PER_PACKET)

\* A variant of SamplesCount that compares with <= : the last packet of a
\* buffer of a whole number of packets gets the remainder, which is 0.
SamplesCount_OffByOne(len, i) ==
    IF len <= i * AUDIO_SAMPLES_PER_PACKET + AUDIO_SAMPLES_PER_PACKET
    THEN len % AUDIO_SAMPLES_PER_PACKET
    ELSE AUDIO_SAMPLES_PER_PACKET

\* samples_count
SamplesCount(len, i) ==
    IF len < i * AUDIO_SAMPLES_PER_PACKET + AUDIO_SAMPLES_PER_PACKET
    THEN len % AUDIO_SAMPLES_PER_PACKET
    ELSE AUDIO_SAMPLES_PER_PACKET

\* The packet of iteration i: the timestamp, and the payload as the offset
\* of its first byte in the audio buffer and its length.
AudioPacket(len, i) ==
    [ts  |-> AudioTimestamp(i),
     ptr |-> i * AUDIO_SAMPLES_PER_PACKET,
     len |-> SamplesCount(len, i)]

\* A variant of AudioNext that sends the packet again after a failure.
AudioNext_Retry(i, res) == IF res = 0 - 1 THEN i ELSE i + 1

\* i++ of the for loop: the failure of a send does not change it.
AudioNext(i, res) == i + 1

\* One iteration of the for loop of start_audio.
AudioSend ==
    /\ mpc = "audio"
    /\ AudioContinues(alen, ai)
    /\ \E res \in SendResults(failures) :
          /\ sent' = Append(sent, AudioPacket(alen, ai))
          /\ failures' = IF res = 0 THEN failures ELSE failures + 1
          /\ reported' = Perror(res, reported)
          /\ ai' = AudioNext(ai, res)
    /\ UNCHANGED <<mpc, alen, units, vstream, vpos, tester, nalu_start,
                   timestamp, calls>>
    /\ UNCHANGED nonMediaVars

\* The end of the for loop of start_audio, and the drop of the transport.
AudioDrop ==
    /\ mpc = "audio"
    /\ ~AudioContinues(alen, ai)
    /\ mpc' = "done"
    /\ UNCHANGED <<alen, ai, units, vstream, vpos, tester, nalu_start,
                   timestamp, sent, calls, failures, reported>>
    /\ UNCHANGED nonMediaVars

(***************************************************************************)
(* The video.  The bytes of a stream are numbers; 9 is the header of an    *)
(* Access Unit Delimiter, 1 the header of a slice.  A stream is made of    *)
(* units, each behind a start code of one width.                           *)
(***************************************************************************)
VideoBytes == {0, 1, 9}

StartCode(w) == IF w = 3 THEN <<0, 0, 1>> ELSE <<0, 0, 0, 1>>

\* The sequences over S of at most n elements.
SeqsUpTo(S, n) == UNION {[1..k -> S] : k \in 0..n}

RECURSIVE Build(_, _)
Build(w, us) ==
    IF us = <<>> THEN <<>>
    ELSE StartCode(w) \o Head(us) \o Build(w, Tail(us))

\* smolrtsp_test_start_code_3b, smolrtsp_test_start_code_4b: the length of
\* the start code that data begins with, 0 when it begins with none.
smolrtsp_test_start_code(w, data) ==
    IF StartsWith(data, StartCode(w)) THEN w ELSE 0

\* smolrtsp_determine_start_code: the tester of the start code that the data
\* begins with, as its width; 0 is the null tester.
smolrtsp_determine_start_code(data) ==
    IF smolrtsp_test_start_code(3, data) # 0 THEN 3
    ELSE IF smolrtsp_test_start_code(4, data) # 0 THEN 4
    ELSE 0

\* SmolRTSP_NalHeader_unit_type(SmolRTSP_H264NalHeader_parse(byte)): the low
\* five bits of the header byte.
SmolRTSP_NalHeader_unit_type(byte) == byte % 32

SMOLRTSP_H264_NAL_UNIT_AUD == 9

\* A variant of BumpTimestamp that steps at every unit.
BumpTimestamp_EveryUnit(ts, header) == U32(ts + VIDEO_SAMPLE_RATE \div VIDEO_FPS)

\* if (unit_type == AUD) *timestamp += VIDEO_SAMPLE_RATE / VIDEO_FPS;
BumpTimestamp(ts, header) ==
    IF SmolRTSP_NalHeader_unit_type(header) = SMOLRTSP_H264_NAL_UNIT_AUD
    THEN U32(ts + VIDEO_SAMPLE_RATE \div VIDEO_FPS)
    ELSE ts

\* A variant of NaluPayload that keeps the header byte in the payload.
NaluPayload_WithHeader(stream, s, e) == SubSeq(stream, s, e - 1)

\* U8Slice99_from_ptrdiff(nalu_start + 1, nalu_end): the bytes at the
\* positions s + 1 .. e - 1.
NaluPayload(stream, s, e) == SubSeq(stream, s + 1, e - 1)

(***************************************************************************)
(* send_nalu(t, &timestamp, nalu_start, nalu_end), with nalu_start = s and *)
(* nalu_end = e: the outcomes of one call.  Reading nalu_start[0] behind   *)
(* the end of the stream, and a payload of negative length, are undefined: *)
(* the process is terminated, or the call goes on with some byte as the    *)
(* header and with the bytes that NaluPayload gives.                       *)
(***************************************************************************)
SendNalu(stream, ts, s, e, nfail) ==
    LET outside  == s > Len(stream)
        negative == e - s - 1 < 0
        headers  == IF outside THEN VideoBytes ELSE {stream[s]}
    IN  (IF outside \/ negative
         THEN {[crash |-> TRUE, timestamp |-> ts, pkt |-> <<>>, res |-> 0]}
         ELSE {})
        \cup
        {[crash     |-> FALSE,
          timestamp |-> BumpTimestamp(ts, h),
          pkt       |-> [ts      |-> BumpTimestamp(ts, h),
                         header  |-> h,
                         payload |-> NaluPayload(stream, s, e)],
          res       |-> r] : h \in headers, r \in SendResults(nfail)}

\* The effect of one send_nalu call with the outcome o.
SendNaluEffect(o, s, e) ==
    /\ calls' = Append(calls, [nalu_start |-> s, nalu_end |-> e])
    /\ IF o.crash
       THEN UNCHANGED <<timestamp, sent, failures, reported>>
       ELSE /\ timestamp' = o.timestamp
            /\ sent' = Append(sent, o.pkt)
            /\ failures' = IF o.res = 0 THEN failures ELSE failures + 1
            /\ reported' = Perror(o.res, reported)

\* The bytes of the slice `video`.
VideoSlice == Drop(vstream, vpos - 1)

\* start_video up to the while loop: abort() when the stream begins with no
\* start code.
VideoBegin ==
    /\ mpc = "video_begin"
    /\ tester' = smolrtsp_determine_start_code(vstream)
    /\ mpc' = IF tester' = 0 THEN "aborted" ELSE "video_loop"
    /\ UNCHANGED <<alen, ai, units, vstream, vpos, nalu_start, timestamp,
                   sent, calls, failures, reported>>
    /\ UNCHANGED nonMediaVars

\* One iteration of the while loop of start_video.
VideoScan ==
    /\ mpc = "video_loop"
    /\ VideoSlice # <<>>
    /\ LET start_code_len == smolrtsp_test_start_code(tester, VideoSlice)
       IN  IF start_code_len = 0
           THEN /\ vpos' = vpos + 1
                /\ UNCHANGED <<mpc, nalu_start, timestamp, sent, calls,
                               failures, reported>>
           ELSE IF nalu_start # 0
           THEN \E o \in SendNalu(vstream, timestamp, nalu_start, vpos, failures) :
                   /\ SendNaluEffect(o, nalu_start, vpos)
                   /\ IF o.crash
                      THEN mpc' = "crashed" /\ UNCHANGED <<vpos, nalu_start>>
                      ELSE /\ vpos' = vpos + start_code_len
                           /\ nalu_start' = vpos + start_code_len
                           /\ UNCHANGED mpc
           ELSE /\ vpos' = vpos + start_code_len
                /\ nalu_start' = vpos + start_code_len
                /\ UNCHANGED <<mpc, timestamp, sent, calls, failures, reported>>
    /\ UNCHANGED <<alen, ai, units, vstream, tester>>
    /\ UNCHANGED nonMediaVars

\* The end of the while loop of start_video: the send_nalu call for the last
\* unit, and the drop of the transport.
VideoFinal ==
    /\ mpc = "video_loop"
    /\ VideoSlice = <<>>
    /\ \E o \in SendNalu(vstream, timestamp, nalu_start, vpos, failures) :
          /\ SendNaluEffect(o, nalu_start, vpos)
          /\ mpc' = IF o.crash THEN "crashed" ELSE "done"
    /\ UNCHANGED <<alen, ai, units, vstream, vpos, tester, nalu_start>>
    /\ UNCHANGED nonMediaVars

\* The program starts start_audio on an audio buffer of some length, or
\* start_video on a stream made of some units behind start codes of one width.
MediaInit ==
    /\ ParserOff
    /\ ResultOff
    /\ ServerOff
    /\ ai = 0
    /\ vpos = 1
    /\ tester = 0
    /\ nalu_start = 0
    /\ timestamp = 0
    /\ sent = <<>>
    /\ calls = <<>>
    /\ failures = 0
    /\ reported = 0
    /\ \/ /\ mpc = "audio"
          /\ alen \in 0..MaxAudioLen
          /\ units = <<>>
          /\ vstream = <<>>
       \/ /\ mpc = "video_begin"
          /\ alen = 0
          /\ units \in SeqsUpTo(SeqsUpTo(VideoBytes, MaxUnitLen), MaxUnits)
          /\ \E w \in {3, 4} : vstream = Build(w, units)

MediaNext == AudioSend \/ AudioDrop \/ VideoBegin \/ VideoScan \/ VideoFinal

MediaSpec == MediaInit /\ [][MediaNext]_vars

(***************************************************************************)
(* SmolRTSP_ParseResult and SmolRTSP_ParseStatus (error.c).  A result is   *)
(* Success with a status, or Error with a SmolRTSP_ParseError; of an error *)
(* only the variant is kept.                                               *)
(***************************************************************************)
\* The offsets that the constructors are given.
MaxOffset == 30

ParseErrors == {"ContentLength", "StrMismatch", "TypeMismatch", "HeaderMapOverflow"}

SmolRTSP_ParseStatus_partial(offset) == [offset |-> offset, is_complete |-> FALSE]

SmolRTSP_ParseStatus_complete(offset) == [offset |-> offset, is_complete |-> TRUE]

SmolRTSP_ParseResult_Success(status) == [tag |-> "Success", status |-> status]

SmolRTSP_ParseResult_Error(e) == [tag |-> "Error", err |-> e]

SmolRTSP_ParseResult_partial(offset) ==
    SmolRTSP_ParseResult_Success(SmolRTSP_ParseStatus_partial(offset))

SmolRTSP_ParseResult_complete(offset) ==
    SmolRTSP_ParseResult_Success(SmolRTSP_ParseStatus_complete(offset))

SmolRTSP_ParseResult_is_partial(self) ==
    IF self.tag = "Success" THEN ~self.status.is_complete ELSE FALSE

\* A variant of SmolRTSP_ParseResult_is_complete without the `otherwise`
\* branch: `result` keeps the value it was initialised with.
SmolRTSP_ParseResult_is_complete_NoOtherwise(self) ==
    IF self.tag = "Success" THEN self.status.is_complete ELSE TRUE

SmolRTSP_ParseResult_is_complete(self) ==
    IF self.tag = "Success" THEN self.status.is_complete ELSE FALSE

\* A result is built by SmolRTSP_ParseResult_partial.
MakePartial ==
    /\ \E n \in 0..MaxOffset :
          /\ pr' = SmolRTSP_ParseResult_partial(n)
          /\ made' = [by |-> "partial", offset |-> n]
    /\ answer' = NoAnswer
    /\ UNCHANGED nonResultVars

\* A result is built by SmolRTSP_ParseResult_complete.
MakeComplete ==
    /\ \E n \in 0..MaxOffset :
          /\ pr' = SmolRTSP_ParseResult_complete(n)
          /\ made' = [by |-> "complete", offset |-> n]
    /\ answer' = NoAnswer
    /\ UNCHANGED nonResultVars

\* An error result is built.
MakeError ==
    /\ \E e \in ParseErrors : pr' = SmolRTSP_ParseResult_Error(e)
    /\ made' = [by |-> "error", offset |-> 0]
    /\ answer' = NoAnswer
    /\ UNCHANGED nonResultVars

\* is_partial and is_complete are asked of the result.
AskResult ==
    /\ pr # NoResult
    /\ ~answer.asked
    /\ answer' = [asked       |-> TRUE,
                  is_partial  |-> SmolRTSP_ParseResult_is_partial(pr),
                  is_complete |-> SmolRTSP_ParseResult_is_complete(pr)]
    /\ UNCHANGED <<pr, made>>
    /\ UNCHANGED nonResultVars

ResultInit == ParserOff /\ MediaOff /\ ResultOff /\ ServerOff

ResultNext == MakePartial \/ MakeComplete \/ MakeError \/ AskResult

ResultSpec == ResultInit /\ [][ResultNext]_vars

(***************************************************************************)
(* The Client controller of the example server (examples/server.c).  One   *)
(* client is followed over a bounded number of requests.  A request is     *)
(* kept by what the handlers read of it: method, URI (its path segments),  *)
(* Transport header (what smolrtsp_parse_transport makes of it), Session   *)
(* header (its characters), and the outcome of smolrtsp_dgram_socket       *)
(* during the request.                                                     *)
(***************************************************************************)
\* The requests one client sends.
MaxRequests == 3

\* rand() answers a number in 0..MaxRand.
MaxRand == 1

\* The characters of a Session header value.
MaxSessionLen == 1

AUDIO_PCMU_PAYLOAD_TYPE == 0

AUDIO_SAMPLE_RATE == 8000

VIDEO_PAYLOAD_TYPE == 96

AUDIO_STREAM_ID == 0

VIDEO_STREAM_ID == 1

MAX_STREAMS == 2

\* A character of a Session value: a decimal digit, or Letter.
Letter == 10

SessionChars == {0, 1, Letter}

SessionHeaders ==
    {[present |-> FALSE, text |-> <<>>]} \cup
    {[present |-> TRUE, text |-> t] : t \in SeqsUpTo(SessionChars, MaxSessionLen)}

\* The value of the decimal digits that text starts with, after acc.
RECURSIVE ScanDigits(_, _)
ScanDigits(text, acc) ==
    IF text = <<>> \/ Head(text) = Letter
    THEN acc
    ELSE ScanDigits(Tail(text), acc * 10 + Head(text))

\* smolrtsp_scanf_header(&req->header_map, SMOLRTSP_HEADER_SESSION, "%" SCNu64,
\* &session_id): the number of items assigned (-1 without the header or on an
\* empty value, 0 when the value does not start with a digit) and the item.
smolrtsp_scanf_header(h) ==
    IF ~h.present \/ h.text = <<>> THEN [n |-> 0 - 1, value |-> 0]
    ELSE IF Head(h.text) = Letter THEN [n |-> 0, value |-> 0]
    ELSE [n |-> 1, value |-> ScanDigits(h.text, 0)]

\* What smolrtsp_parse_transport makes of the Transport header, if there is
\* one: -1 when malformed, else the lower transport and the two options.
TransportHeader(found, wellformed, lower, interleaved, client_port) ==
    [found |-> found, wellformed |-> wellformed, lower |-> lower,
     interleaved |-> interleaved, client_port |-> client_port]

NoTransportHeader == TransportHeader(FALSE, FALSE, "TCP", FALSE, FALSE)

TransportHeaders ==
    { NoTransportHeader,
      TransportHeader(TRUE, FALSE, "TCP", FALSE, FALSE),
      TransportHeader(TRUE, TRUE, "TCP", TRUE, FALSE),
      TransportHeader(TRUE, TRUE, "TCP", FALSE, FALSE),
      TransportHeader(TRUE, TRUE, "UDP", FALSE, TRUE),
      TransportHeader(TRUE, TRUE, "UDP", FALSE, FALSE) }

Uris == {<<"audio">>, <<"video">>, <<"audio", "video">>}

\* CharSlice99_primitive_ends_with(uri, "/audio")
EndsWithAudio(uri) == Len(uri) > 0 /\ uri[Len(uri)] = "audio"

ServerRequest(method, uri, transport, session, socket_ok) ==
    [method |-> method, uri |-> uri, transport |-> transport,
     session |-> session, socket_ok |-> socket_ok]

\* A request of a method whose handler reads nothing of the request.
PlainRequest(method) ==
    ServerRequest(method, <<>>, NoTransportHeader, [present |-> FALSE, text |-> <<>>], TRUE)

\* smolrtsp_dgram_socket is called only for UDP with a client_port.
SetupRequests ==
    {r \in {ServerRequest("SETUP", u, t, h, ok) :
                u \in Uris, t \in TransportHeaders, h \in SessionHeaders,
                ok \in BOOLEAN} :
        r.socket_ok \/ (r.transport.wellformed /\ r.transport.lower = "UDP"
                                                /\ r.transport.client_port)}

PlayRequests ==
    {ServerRequest("PLAY", <<>>, NoTransportHeader, h, TRUE) : h \in SessionHeaders}

\* A response sent: the status and the names of the headers it carries.
Response(status, headers) == [status |-> status, headers |-> headers]

\* setup_tcp: the return value, the headers added to the context and the
\* responses sent.
setup_tcp(config) ==
    IF config.interleaved
    THEN [ret |-> 0, headers |-> {"Transport"}, responses |-> <<>>]
    ELSE [ret |-> 0 - 1, headers |-> {},
          responses |-> <<Response("BAD_REQUEST", {})>>]

\* setup_udp, socket_ok being whether smolrtsp_dgram_socket finds a socket.
setup_udp(config, socket_ok) ==
    IF config.client_port
    THEN IF ~socket_ok
         THEN [ret |-> 0 - 1, headers |-> {}, responses |-> <<>>]
         ELSE [ret |-> 0, headers |-> {"Transport"}, responses |-> <<>>]
    ELSE [ret |-> 0 - 1, headers |-> {},
          responses |-> <<Response("BAD_REQUEST", {})>>]

\* setup_transport: as above, and the lower transport of *t on success.
setup_transport(req) ==
    LET config == req.transport
        inner == IF config.lower = "TCP" THEN setup_tcp(config)
                                         ELSE setup_udp(config, req.socket_ok)
        Bad == [ret |-> 0 - 1, headers |-> {}, lower |-> config.lower,
                responses |-> <<Response("BAD_REQUEST", {})>>]
    IN  IF ~config.found THEN Bad
        ELSE IF ~config.wellformed THEN Bad
        ELSE IF inner.ret = 0 - 1
        THEN [ret |-> 0 - 1, headers |-> inner.headers, lower |-> config.lower,
              responses |-> Append(inner.responses,
                                   Response("INTERNAL_SERVER_ERROR", inner.headers))]
        ELSE [ret |-> 0, headers |-> inner.headers, lower |-> config.lower,
              responses |-> inner.responses]

\* SmolRTSP_RtpTransport_new: a fresh transport object, not dropped.
SmolRTSP_RtpTransport_new(lower, payload_ty, clock_rate) ==
    [lower |-> lower, payload_ty |-> payload_ty, clock_rate |-> clock_rate,
     dropped |-> FALSE]

\* A variant of SelectStream that takes the audio stream whatever the URI.
SelectStream_AlwaysAudio(uri) == AUDIO_STREAM_ID

\* The stream_id that Client_setup computes from the URI.
SelectStream(uri) ==
    IF EndsWithAudio(uri) THEN AUDIO_STREAM_ID ELSE VIDEO_STREAM_ID

\* Client_setup on the streams strs and the objects os: the outcomes, one for
\* each answer of rand().
Client_setup(req, strs, os) ==
    LET t == setup_transport(req)
        stream_id == SelectStream(req.uri)
        sc == smolrtsp_scanf_header(req.session)
        Fail(resps) == [streams |-> strs, objs |-> os, responses |-> resps]
        Done(session_id) ==
            LET obj == IF AUDIO_STREAM_ID = stream_id
                       THEN SmolRTSP_RtpTransport_new(
                                t.lower, AUDIO_PCMU_PAYLOAD_TYPE, AUDIO_SAMPLE_RATE)
                       ELSE SmolRTSP_RtpTransport_new(
                                t.lower, VIDEO_PAYLOAD_TYPE, VIDEO_SAMPLE_RATE)
                os2 == Append(os, obj)
            IN  [streams |-> [strs EXCEPT ![stream_id] =
                                 [session_id |-> session_id, transport |-> Len(os2)]],
                 objs |-> os2,
                 responses |-> Append(t.responses,
                                      Response("OK", t.headers \cup {"Session"}))]
    IN  IF t.ret = 0 - 1 THEN {Fail(t.responses)}
        ELSE IF req.session.present
        THEN IF sc.n # 1
             THEN {Fail(Append(t.responses, Response("BAD_REQUEST", t.headers)))}
             ELSE {Done(sc.value)}
        ELSE {Done(r) : r \in 0..MaxRand}

\* start_audio or start_video on stream i, from the state st of a PLAY (objs,
\* started, played, crashed).  Both send through stream->transport and drop
\* it in the end.  On a null or dropped transport the behaviour is undefined:
\* the process crashes or goes on.
StartStream(i, strs, st) ==
    LET tr == strs[i].transport
        live == tr # 0 /\ ~st.objs[tr].dropped
        use == [stream |-> i, transport |-> tr, live |-> live,
                by |-> IF AUDIO_STREAM_ID = i THEN "start_audio" ELSE "start_video"]
        st1 == [st EXCEPT !.started = Append(@, use)]
        returned == [st1 EXCEPT !.played = TRUE]
    IN  IF live
        THEN {[returned EXCEPT !.objs[tr].dropped = TRUE]}
        ELSE {returned, [st1 EXCEPT !.crashed = TRUE]}

\* The loop of Client_play from stream i on, over a set of states.
RECURSIVE PlayLoop(_, _, _, _)
PlayLoop(i, session_id, strs, sts) ==
    IF i >= MAX_STREAMS THEN sts
    ELSE PlayLoop(i + 1, session_id, strs,
             UNION { IF ~st.crashed /\ strs[i].session_id = session_id
                     THEN StartStream(i, strs, st)
                     ELSE {st} : st \in sts })

\* Client_play: the outcomes, one for each way undefined behaviour goes.
Client_play(req, strs, os) ==
    LET sc == smolrtsp_scanf_header(req.session)
        st0 == [objs |-> os, started |-> <<>>, played |-> FALSE, crashed |-> FALSE]
        Respond(st) ==
            IF st.crashed THEN <<>>
            ELSE IF st.played THEN <<Response("OK", {"Range"})>>
            ELSE <<Response("SESSION_NOT_FOUND", {})>>
    IN  IF sc.n # 1
        THEN {[objs |-> os, started |-> <<>>, crashed |-> FALSE,
               responses |-> <<Response("BAD_REQUEST", {})>>]}
        ELSE {[objs |-> st.objs, started |-> st.started, crashed |-> st.crashed,
               responses |-> Respond(st)] :
                  st \in PlayLoop(0, sc.value, strs, {st0})}

\* The client takes one more request.
Takes(req) ==
    /\ spc = "idle"
    /\ nreq < MaxRequests
    /\ sreq' = req
    /\ nreq' = nreq + 1

\* A handler that touches no stream answers with one response.
Answers(resp) ==
    /\ responses' = <<resp>>
    /\ started' = <<>>
    /\ UNCHANGED <<streams, objs, spc>>
    /\ UNCHANGED nonServerVars

ClientOptions ==
    /\ Takes(PlainRequest("OPTIONS"))
    /\ Answers(Response("OK", {"Public"}))

ClientDescribe ==
    /\ Takes(PlainRequest("DESCRIBE"))
    /\ Answers(Response("OK", {"Content-Type"}))

ClientTeardown ==
    /\ Takes(PlainRequest("TEARDOWN"))
    /\ Answers(Response("OK", {}))

ClientUnknown ==
    /\ Takes(PlainRequest("OTHER"))
    /\ Answers(Response("METHOD_NOT_ALLOWED", {}))

ClientSetup ==
    \E req \in SetupRequests :
        /\ Takes(req)
        /\ \E o \in Client_setup(req, streams, objs) :
              /\ streams' = o.streams
              /\ objs' = o.objs
              /\ responses' = o.responses
        /\ started' = <<>>
        /\ UNCHANGED spc
        /\ UNCHANGED nonServerVars

ClientPlay ==
    \E req \in PlayRequests :
        /\ Takes(req)
        /\ \E o \in Client_play(req, streams, objs) :
              /\ objs' = o.objs
              /\ responses' = o.responses
              /\ started' = o.started
              /\ spc' = IF o.crashed THEN "crashed" ELSE spc
        /\ UNCHANGED streams
        /\ UNCHANGED nonServerVars

\* The client that listener_cb has just set up.
ServerInit ==
    /\ ParserOff /\ MediaOff /\ ResultOff
    /\ streams = FreshStreams
    /\ objs = <<>>
    /\ spc = "idle"
    /\ sreq = NoRequest
    /\ responses = <<>>
    /\ started = <<>>
    /\ nreq = 0

ServerNext ==
    \/ ClientOptions
    \/ ClientDescribe
    \/ ClientSetup
    \/ ClientPlay
    \/ ClientTeardown
    \/ ClientUnknown

ServerSpec == ServerInit /\ [][ServerNext]_vars

(***************************************************************************)
(* The reference: what the grammar of a request says of a byte sequence,   *)
(* and what one parse call on a fresh parser makes of a whole sequence.    *)
(***************************************************************************)
\* The stages of a request, in the order of the grammar.
Stages == <<"Method", "RequestURI", "RTSPVersion", "HeaderMap">>

\* The bytes of `in` are a method, a request URI, a version line and a
\* header block, and nothing else.
WellFormed(in) ==
    LET m == Method_deserialize(<<>>, in)
        u == RequestURI_deserialize(<<>>, Drop(in, m.bytes_read))
        v == RTSPVersion_deserialize("", Drop(in, m.bytes_read + u.bytes_read))
        h == HeaderMap_deserialize(<<>>,
                Drop(in, m.bytes_read + u.bytes_read + v.bytes_read))
    IN  /\ m.res = "Ok"
        /\ u.res = "Ok"
        /\ v.res = "Ok"
        /\ h.res = "Ok"
        /\ m.bytes_read + u.bytes_read + v.bytes_read + h.bytes_read = Len(in)

\* The while loop of parse, run to its return.
RECURSIVE RunLoop(_, _, _, _, _, _)
RunLoop(in, st, tr, req, cur, sz) ==
    LET o    == CHOOSE x \in Invoke(tr, req, Window(in, cur, sz)) : ~x.crash
        sw   == Switch(o.res, st, tr)
        req2 == WriteEntity(req, tr.entity, o.value)
    IN  IF sw.return
        THEN [state |-> sw.state, request |-> req2]
        ELSE RunLoop(in, sw.state, tr, req2, cur + o.bytes_read, sz - o.bytes_read)

\* One parse call on a fresh parser and an empty Request, given all of `in`.
OneCall(in) ==
    RunLoop(in, ParseRequestResult[1], TransitionAt(ParseRequestResult[1]),
            EmptyRequest, 1, Len(in))

\* The state that follows a non-terminal state in the order of the stages.
StageSucc(st) ==
    IF st \in NonTerminal
    THEN LET i == CHOOSE k \in 1..Len(ParseRequestResult) : ParseRequestResult[k] = st
         IN  ParseRequestResult[i + 1]
    ELSE st

\* The field of the Request that a non-terminal state has pending.
PendingEntity(st) ==
    CASE st = "NothingParsed"    -> "method"
      [] st = "MethodParsed"     -> "uri"
      [] st = "RequestURIParsed" -> "version"
      [] OTHER                   -> "header_map"

\* The caller has used up its calls on a parser that is not finished.
OutOfCalls == ncalls = MaxCalls /\ pc = "idle" /\ state \in NonTerminal

(***************************************************************************)
(* The properties.                                                         *)
(***************************************************************************)

\* C1: chunk invariance.  Once the parser has been shown all the bytes of a
\* well-formed request, in whatever chunks, the value parse returned and the
\* Request are those of one parse call given the whole request.
C1_ChunkInvariance ==
    (pc = "idle" /\ ncalls > 0 /\ seen = Len(input) /\ WellFormed(input))
        => (ret = OneCall(input).state /\ request = OneCall(input).request)

\* C2: sticky terminal states.  Once the parser state is Ok or Err it never
\* changes, and every parse call made in it returns that state at once.
C2_StickyTerminal ==
    [][(
        state \in Finished =>
            /\ state' = state
            /\ (ncalls' # ncalls => ret' = state /\ pc' = "idle")
    )]_vars

\* C2, witness: a parse call on a parser in the Err state has returned Err.
C2_Witness ==
    state = "Err" /\ pc = "idle" /\ ret = "Err" /\ lastRes = "none" /\ ncalls > 1

\* C3: a fully-buffered request completes in one invocation.  When the first
\* parse call is given a whole well-formed request, it runs the four stages
\* in order and returns Ok.
C3_OneInvocation ==
    (pc = "idle" /\ ncalls = 1 /\ seen = Len(input) /\ WellFormed(input))
        => (ret = "Ok" /\ done = Stages)

\* C4: progress to completion.  For a well-formed request, a caller that goes
\* on feeding and calling eventually sees the parser in the Ok state, unless
\* it runs out of calls on an unfinished parser first.
C4_Progress == WellFormed(input) => <>(state = "Ok" \/ OutOfCalls)

\* C5: strict stage order.  The parser state changes only to the next state
\* of the order or from a non-terminal state to Err, and every successful
\* deserialization moves it to the next state of the order.
C5_StrictOrder ==
    [][(
        /\ (state' # state =>
               \/ state' = StageSucc(state)
               \/ (state \in NonTerminal /\ state' = "Err"))
        /\ ((pc = "loop" /\ lastRes' = "Ok") => state' = StageSucc(state))
    )]_vars

\* C6: every non-terminal state owns exactly one deserialization target.
\* Every deserializer call of parse is made through a non-null deserializer
\* and on the field of the Request that the current state has pending.
C6_OneTargetPerState ==
    pc = "loop" =>
        /\ transition.deserializer # NULL
        /\ transition.entity = PendingEntity(state)

\* C7: Ok only at the end of the header block.  The parser state becomes Ok
\* only by a success of the header-map deserializer in the header-map stage,
\* after the method, the URI, the version and the header map have been
\* deserialized in this order.
C7_OkOnlyAfterHeaderMap ==
    [][(
        (state' = "Ok" /\ state # "Ok") =>
            /\ pc = "loop"
            /\ state = "HeaderMapParsed"
            /\ transition.deserializer = "HeaderMap"
            /\ lastRes' = "Ok"
            /\ done' = Stages
    )]_vars

\* C7, witness: the request-URI deserializer has reported Ok, and the parser
\* state is RequestURIParsed.
C7_Witness ==
    pc = "loop" /\ lastRes = "Ok" /\ state = "RequestURIParsed"
        /\ done = <<"Method", "RequestURI">>

\* C8: NeedMore leaves the state unchanged.  When a deserializer call reports
\* NeedMore, parse returns at once, the parser state is the one before the
\* call, and it is a non-terminal state.
C8_NeedMoreKeepsState ==
    [][(
        (pc = "loop" /\ lastRes' = "NeedMore") =>
            /\ state' = state
            /\ ret' = state
            /\ pc' = "idle"
            /\ state \in NonTerminal
    )]_vars

\* C8, witness: parse has returned MethodParsed on a NeedMore of the
\* deserializer.
C8_Witness ==
    pc = "idle" /\ lastRes = "NeedMore" /\ state = "MethodParsed"
        /\ ret = "MethodParsed"

\* C9: a deserializer error is terminal.  When a deserializer call reports
\* Err, the parser state becomes Err and parse returns Err at once.
C9_ErrIsTerminal ==
    [][(
        (pc = "loop" /\ lastRes' = "Err") =>
            /\ state' = "Err"
            /\ ret' = "Err"
            /\ pc' = "idle"
    )]_vars

\* C9, witness: parse has returned Err on an Err of a deserializer that
\* followed a successful deserialization.
C9_Witness ==
    pc = "idle" /\ lastRes = "Err" /\ state = "Err" /\ ret = "Err" /\ done # <<>>

\* C10: a parse call on a finished parser touches nothing.  It calls no
\* deserializer and leaves the parser's state and cursor, the Request and the
\* input as they are.
C10_FinishedCallTouchesNothing ==
    [][(
        (state \in Finished /\ ncalls' # ncalls) =>
            /\ UNCHANGED <<state, cursor, request, input, done>>
            /\ lastRes' = "none"
            /\ pc' = "idle"
    )]_vars

\* C10, witness: a parse call on a finished parser has returned while bytes
\* that the parser did not consume remain in the caller's buffer.
C10_Witness ==
    state \in Finished /\ pc = "idle" /\ lastRes = "none" /\ ncalls > 1
        /\ cursor <= supplied

(***************************************************************************)
(* The properties of the media functions, under MediaSpec.                 *)
(***************************************************************************)
\* start_audio is running or has returned.
AudioRun == mpc \in {"audio", "done"} /\ vstream = <<>>

\* start_video is running or has come to its end.
VideoRun == vstream # <<>>

\* The step of the video timestamp at a frame boundary.
FrameStep == VIDEO_SAMPLE_RATE \div VIDEO_FPS

\* How many of the first i packets of log are Access Unit Delimiters.
AudsUpTo(log, i) ==
    Cardinality({j \in 1..i :
        SmolRTSP_NalHeader_unit_type(log[j].header) = SMOLRTSP_H264_NAL_UNIT_AUD})

\* Does u hold p as a run of adjacent bytes?
Contains(u, p) ==
    \E k \in 0..(Len(u) - Len(p)) : SubSeq(u, k + 1, k + Len(p)) = p

\* Every unit has a header byte and holds no start code of the width w.
UnitsWellFormed(us, w) ==
    \A i \in 1..Len(us) : us[i] # <<>> /\ ~Contains(us[i], StartCode(w))

\* The number of packets of an audio buffer of len bytes.
PacketsOf(len) ==
    (len + AUDIO_SAMPLES_PER_PACKET - 1) \div AUDIO_SAMPLES_PER_PACKET

\* The packets of an audio buffer of len bytes when no send fails.
ExpectedAudio(len) ==
    [i \in 1..PacketsOf(len) |->
        [ts  |-> (i - 1) * AUDIO_SAMPLES_PER_PACKET,
         ptr |-> (i - 1) * AUDIO_SAMPLES_PER_PACKET,
         len |-> IF len - (i - 1) * AUDIO_SAMPLES_PER_PACKET < AUDIO_SAMPLES_PER_PACKET
                 THEN len - (i - 1) * AUDIO_SAMPLES_PER_PACKET
                 ELSE AUDIO_SAMPLES_PER_PACKET]]

\* The packets of a video made of the units us when no send fails.
ExpectedVideo(us) ==
    [i \in 1..Len(us) |->
        [ts      |-> FrameStep * Cardinality({j \in 1..i :
                        us[j][1] % 32 = SMOLRTSP_H264_NAL_UNIT_AUD}),
         header  |-> us[i][1],
         payload |-> Tail(us[i])]]

\* C11: AUD timestamp stepping.  Every packet of start_video carries
\* clock_rate / frame_rate times the number of Access Unit Delimiters sent
\* up to and including it: the timestamp steps by exactly that amount at
\* each AUD, before the AUD is sent, and is constant between AUDs.
C11_AudTimestampStepping ==
    VideoRun =>
        /\ \A i \in 1..Len(sent) : sent[i].ts = FrameStep * AudsUpTo(sent, i)
        /\ timestamp = FrameStep * AudsUpTo(sent, Len(sent))

\* C11, witness: an AUD, a slice and an AUD have been sent with the
\* timestamps 3600, 3600 and 7200.
C11_Witness ==
    /\ mpc = "done" /\ VideoRun /\ Len(sent) = 3
    /\ sent[1].header = 9 /\ sent[2].header = 1 /\ sent[3].header = 9
    /\ sent[1].ts = 3600 /\ sent[2].ts = 3600 /\ sent[3].ts = 7200

\* C12: NAL round-trip.  For a stream of K units, none empty and none with a
\* start code inside, start_video calls send_nalu K times, in stream order;
\* the i-th call sends the first byte of unit i as the header and the rest
\* of unit i as the payload, from the positions of unit i in the stream.
C12_NalRoundTrip ==
    (mpc = "done" /\ VideoRun /\ UnitsWellFormed(units, tester)) =>
        /\ Len(calls) = Len(units)
        /\ Len(sent) = Len(units)
        /\ \A i \in 1..Len(units) :
              /\ sent[i].header = units[i][1]
              /\ sent[i].payload = Tail(units[i])
              /\ SubSeq(vstream, calls[i].nalu_start, calls[i].nalu_end - 1) = units[i]
              /\ calls[i].nalu_end - calls[i].nalu_start = Len(units[i])
              /\ (i > 1 => calls[i].nalu_start = calls[i - 1].nalu_end + tester)

\* C12, witness: a stream of three units, one of them of two bytes, has been
\* split.
C12_Witness ==
    /\ mpc = "done" /\ VideoRun /\ UnitsWellFormed(units, tester)
    /\ Len(units) = 3 /\ Len(sent) = 3
    /\ \E i \in 1..3 : Len(units[i]) = 2

\* C13: audio timestamps advance by the sample count.  The first packet of
\* start_audio has the timestamp 0, and every later one the timestamp of the
\* packet before it plus the number of samples of that packet.
C13_AudioTimestamps ==
    AudioRun =>
        \A i \in 1..Len(sent) :
            sent[i].ts = IF i = 1 THEN 0 ELSE sent[i - 1].ts + sent[i - 1].len

\* C13, witness: four packets of a buffer that is no whole number of packets
\* have been sent.
C13_Witness ==
    /\ mpc = "done" /\ AudioRun /\ Len(sent) = 4
    /\ alen % AUDIO_SAMPLES_PER_PACKET # 0
    /\ sent[4].ts = 3 * AUDIO_SAMPLES_PER_PACKET

\* C15: send failures are reported and never retried.  Every failed send is
\* reported once, and when start_audio or start_video (on well-formed units)
\* has returned, the packets handed to send_packet are those of a run
\* without failures: each once, with its timestamp and payload.
C15_FailuresNotRetried ==
    /\ reported = failures
    /\ (mpc = "done" /\ AudioRun) => sent = ExpectedAudio(alen)
    /\ (mpc = "done" /\ VideoRun /\ UnitsWellFormed(units, tester)) =>
            sent = ExpectedVideo(units)

\* C15, witness: start_audio has returned after a run of three packets in
\* which one send failed.
C15_Witness ==
    /\ mpc = "done" /\ AudioRun /\ failures = 1 /\ reported = 1
    /\ Len(sent) = 3

\* C19: audio packetization covers the buffer exactly once.  For a buffer of
\* L bytes start_audio sends ceil(L / AUDIO_SAMPLES_PER_PACKET) packets;
\* packet i starts at the offset i * AUDIO_SAMPLES_PER_PACKET, has between 1
\* and AUDIO_SAMPLES_PER_PACKET bytes inside the buffer, and each packet
\* begins where the one before it ends, the last one ending at L.
C19_AudioCoversBuffer ==
    (mpc = "done" /\ AudioRun) =>
        /\ Len(sent) = PacketsOf(alen)
        /\ \A i \in 1..Len(sent) :
              /\ sent[i].ptr = (i - 1) * AUDIO_SAMPLES_PER_PACKET
              /\ sent[i].len >= 1
              /\ sent[i].len <= AUDIO_SAMPLES_PER_PACKET
              /\ sent[i].ptr + sent[i].len <= alen
              /\ (i > 1 => sent[i].ptr = sent[i - 1].ptr + sent[i - 1].len)
        /\ (Len(sent) > 0 => sent[Len(sent)].ptr + sent[Len(sent)].len = alen)

\* C19, witness: a buffer of exactly two packets has been sent.
C19_Witness ==
    /\ mpc = "done" /\ AudioRun /\ alen = 2 * AUDIO_SAMPLES_PER_PACKET
    /\ Len(sent) = 2 /\ sent[2].len = AUDIO_SAMPLES_PER_PACKET

\* C20: NAL splitting stays inside the stream.  Every call of send_nalu has
\* a non-null nalu_start with nalu_start < nalu_end <= end of the stream.
C20_NaluInsideStream ==
    \A i \in 1..Len(calls) :
        /\ calls[i].nalu_start # 0
        /\ calls[i].nalu_start < calls[i].nalu_end
        /\ calls[i].nalu_end <= Len(vstream) + 1

\* C16: partial and complete are exclusive.  Of no result are is_partial and
\* is_complete both true; of a Success exactly one is, is_complete being the
\* flag of the status; of an Error neither is; and the constructors partial
\* and complete build a Success that keeps the offset and is partial,
\* respectively complete.
C16_PartialXorComplete ==
    /\ (made.by = "partial" =>
            /\ pr.tag = "Success" /\ pr.status.offset = made.offset
            /\ (answer.asked => answer.is_partial /\ ~answer.is_complete))
    /\ (made.by = "complete" =>
            /\ pr.tag = "Success" /\ pr.status.offset = made.offset
            /\ (answer.asked => answer.is_complete /\ ~answer.is_partial))
    /\ (answer.asked =>
            /\ ~(answer.is_partial /\ answer.is_complete)
            /\ (pr.tag = "Success" =>
                    /\ answer.is_complete = pr.status.is_complete
                    /\ answer.is_partial # answer.is_complete)
            /\ (pr.tag = "Error" => ~answer.is_partial /\ ~answer.is_complete))

\* C16, witness: is_partial and is_complete have been asked of an error
\* result.
C16_Witness == answer.asked /\ pr.tag = "Error" /\ made.by = "error"

Malformed(req) == smolrtsp_scanf_header(req.session).n # 1

\* The stream that the URI of a SETUP names.
NamedStream(req) ==
    IF EndsWithAudio(req.uri) THEN AUDIO_STREAM_ID ELSE VIDEO_STREAM_ID

\* The ways a SETUP fails.
SetupFails(req) ==
    \/ ~req.transport.found
    \/ ~req.transport.wellformed
    \/ req.transport.lower = "TCP" /\ ~req.transport.interleaved
    \/ req.transport.lower = "UDP" /\ ~req.transport.client_port
    \/ ~req.socket_ok
    \/ req.session.present /\ Malformed(req)

\* C14: a transport, once established, stays.  No request replaces the
\* transport of a stream that has one, a second SETUP for the same stream
\* included.
C14_TransportImmutable ==
    [][\A i \in {AUDIO_STREAM_ID, VIDEO_STREAM_ID} :
          streams[i].transport # 0 =>
              streams'[i].transport = streams[i].transport]_vars

\* C17: PLAY by session id.  After a PLAY without a well-formed Session no
\* stream was started and the one response is Bad Request; otherwise the
\* streams started are exactly those whose session_id is the Session value,
\* each once, audio by start_audio and video by start_video, the one response
\* is OK with Range exactly if a stream was started, and it is Session Not
\* Found if none matches.
C17_PlayBySession ==
    sreq.method = "PLAY" =>
        LET session_id == smolrtsp_scanf_header(sreq.session).value
            matching == {i \in {AUDIO_STREAM_ID, VIDEO_STREAM_ID} :
                            streams[i].session_id = session_id}
        IN  IF Malformed(sreq)
            THEN /\ started = <<>>
                 /\ responses = <<Response("BAD_REQUEST", {})>>
            ELSE /\ {started[k].stream : k \in DOMAIN started} = matching
                 /\ Len(started) = Cardinality(matching)
                 /\ \A k \in DOMAIN started :
                        started[k].by = IF started[k].stream = AUDIO_STREAM_ID
                                        THEN "start_audio" ELSE "start_video"
                 /\ (started # <<>> <=> responses = <<Response("OK", {"Range"})>>)
                 /\ (matching = {} =>
                        responses = <<Response("SESSION_NOT_FOUND", {})>>)

\* C18: SETUP changes one stream or none.  A SETUP that fails leaves both
\* streams as they were; one that succeeds leaves the stream that the URI
\* does not name as it was, gives the named one a transport, and gives it the
\* Session value of the request as session_id when the header is there.
C18_SetupOneStreamOrNone ==
    [][(sreq'.method = "SETUP" /\ nreq' = nreq + 1) =>
          IF SetupFails(sreq')
          THEN streams' = streams
          ELSE /\ streams'[1 - NamedStream(sreq')] = streams[1 - NamedStream(sreq')]
               /\ streams'[NamedStream(sreq')].transport # 0
               /\ streams'[NamedStream(sreq')].transport = Len(objs')
               /\ (sreq'.session.present =>
                      streams'[NamedStream(sreq')].session_id =
                          smolrtsp_scanf_header(sreq'.session).value)]_vars

\* C18, witness: a SETUP of the video stream with a Session header has
\* succeeded while the audio stream had its transport.
C18_Witness ==
    /\ sreq.method = "SETUP"
    /\ NamedStream(sreq) = VIDEO_STREAM_ID
    /\ sreq.session.present
    /\ ~SetupFails(sreq)
    /\ streams[AUDIO_STREAM_ID].transport # 0
    /\ streams[VIDEO_STREAM_ID].transport = Len(objs)

\* C21: exactly one response per request.  After every request whose handler
\* has returned, of whatever method and on whatever path, exactly one response
\* has been sent for it.
C21_OneResponsePerRequest ==
    (sreq.method # "none" /\ spc # "crashed") => Len(responses) = 1

\* C22: PLAY only uses a live transport.  Every stream that a PLAY starts has
\* a transport that an earlier SETUP created and that has not been dropped
\* since, so none is null and none is dropped.
C22_PlayUsesLiveTransport ==
    \A k \in DOMAIN started :
        /\ started[k].transport # 0
        /\ started[k].transport \in DOMAIN objs
        /\ started[k].live

====
